---- MODULE Spec2Model ----
(***************************************************************************)
(* The from-scratch K-Means of 01-Clustering.ipynb: cluster_centers,       *)
(* closest, new_centers and kMeans.                                        *)
(*                                                                         *)
(* Numbers.  The data are integer points of the plane.  Every center the   *)
(* code ever holds is a row of X or the mean of a non-empty set of rows of *)
(* X, so every coordinate is a rational whose denominator divides          *)
(* Scale = lcm(1..MaxM).  A coordinate c is stored as the integer c*Scale, *)
(* which makes mean(), the comparison of distances and the test            *)
(* Delta > .001 exact.  numpy's nan (the mean of an empty slice) is the    *)
(* point NaN; its arithmetic follows IEEE/numpy: any difference or norm    *)
(* with a nan is nan, argmin returns the first nan, nan > x is false.      *)
(* Rounding of float64 is not modelled.                                    *)
(***************************************************************************)
EXTENDS Integers, Sequences, FiniteSets, TLC

\* ---- bounds of the model ------------------------------------------------
MaxM == 3
MaxCoord == 2
MaxK == 3
MaxIter == 2

\* ---- constants of the program -------------------------------------------
\* dimension = 2: the ambient dimension of the notebook's dataset
dimension == 2
\* Delta = 1 before the first iteration
InitialDelta == 1
\* the loop runs while Delta > .001 = 1 / TolInv
TolInv == 1000

\* X, K, max_iter: the arguments of kMeans; centers, iteration, Delta, moved,
\* labels: its local variables; c: the local c of the last new_centers call;
\* pc: where the call is ("start", "loop", "returned", or "raised" after an
\* exception left kMeans); draws: how often np.random.choice was called;
\* calls: how often new_centers was called; printed: what kMeans has printed
VARIABLES X, K, max_iter, centers, iteration, Delta, moved, c, labels, pc, draws, calls, printed

vars == <<X, K, max_iter, centers, iteration, Delta, moved, c, labels, pc, draws, calls, printed>>

\* ---- arithmetic ---------------------------------------------------------
RECURSIVE Gcd(_, _)
Gcd(a, b) == IF b = 0 THEN a ELSE Gcd(b, a % b)

RECURSIVE LcmUpTo(_)
LcmUpTo(n) == IF n <= 1 THEN 1 ELSE LET l == LcmUpTo(n - 1) IN (l * n) \div Gcd(l, n)

Scale == LcmUpTo(MaxM)

Dims == 1..dimension

\* a finite point, from its integer coordinates
Pt(co) == [nan |-> FALSE, v |-> [d \in Dims |-> co[d] * Scale]]

NaN == [nan |-> TRUE, v |-> [d \in Dims |-> 0]]

RECURSIVE SumOver(_, _)
SumOver(S, f) ==
    IF S = {} THEN 0
    ELSE LET i == CHOOSE j \in S : TRUE IN f[i] + SumOver(S \ {i}, f)

\* the rows a dataset can be made of: the points with natural coordinates
\* whose sum is at most MaxCoord
Points == {Pt(co) : co \in {f \in [Dims -> 0..MaxCoord] : SumOver(Dims, f) <= MaxCoord}}

\* squared Euclidean distance of two finite points (in units of 1/Scale^2)
Dist2(p, q) == SumOver(Dims, [d \in Dims |-> (p.v[d] - q.v[d]) * (p.v[d] - q.v[d])])

\* a sum in place of the mean
MeanOfSum(XX, I) ==
    IF I = {} THEN NaN
    ELSE [nan |-> FALSE, v |-> [d \in Dims |-> SumOver(I, [i \in I |-> XX[i].v[d]])]]

\* a mean that divides by the number of all rows instead of the rows selected
MeanOfAllRows(XX, I) ==
    IF I = {} THEN NaN
    ELSE [nan |-> FALSE,
          v |-> [d \in Dims |-> SumOver(I, [i \in I |-> XX[i].v[d]]) \div Len(XX)]]

\* X[I].mean(axis=0): the mean of the rows of X with index in I; nan when I is empty
MeanOf(XX, I) ==
    IF I = {} THEN NaN
    ELSE [nan |-> FALSE,
          v |-> [d \in Dims |-> SumOver(I, [i \in I |-> XX[i].v[d]]) \div Cardinality(I)]]

\* ---- closest(X, centers) ------------------------------------------------
\* a distance that looks at the first coordinate only
DistFirstCoord(x, ce) ==
    IF ce.nan THEN [nan |-> TRUE, sq |-> 0]
    ELSE [nan |-> FALSE, sq |-> (x.v[1] - ce.v[1]) * (x.v[1] - ce.v[1])]

\* np.linalg.norm(x - center): the distance as its square, nan for a nan center
Dist(x, ce) == IF ce.nan THEN [nan |-> TRUE, sq |-> 0] ELSE [nan |-> FALSE, sq |-> Dist2(x, ce)]

\* an argmin that keeps the last of several equal minima
ReplacesOnTie(ip, mp) == ip.nan \/ ip.sq <= mp.sq

\* numpy's argmin replaces the running minimum mp by ip when !(ip >= mp)
Replaces(ip, mp) == ip.nan \/ ip.sq < mp.sq

\* the scan of np.argmin from column j on, best being the index of the running
\* minimum; the scan stops at the first nan
RECURSIVE ArgMinFrom(_, _, _, _)
ArgMinFrom(x, cs, j, best) ==
    IF j > Len(cs) \/ Dist(x, cs[best]).nan THEN best
    ELSE ArgMinFrom(x, cs, j + 1, IF Replaces(Dist(x, cs[j]), Dist(x, cs[best])) THEN j ELSE best)

\* an argmin that returns the last of the centers at minimum distance
ArgMinLast(x, cs) ==
    CHOOSE j \in 1..Len(cs) :
        /\ \A l \in 1..Len(cs) : Dist(x, cs[j]).sq <= Dist(x, cs[l]).sq
        /\ \A l \in j + 1..Len(cs) : Dist(x, cs[j]).sq < Dist(x, cs[l]).sq

\* np.argmin(distances, axis=0) for one row, as a 1-based index
ArgMin(x, cs) == ArgMinFrom(x, cs, 2, 1)

\* np.argmin raises ValueError on an empty sequence (no center)
closestRaises(XX, cs) == Len(cs) = 0

\* labels that count the centers from 1
closestFromOne(XX, cs) == [i \in 1..Len(XX) |-> ArgMin(XX[i], cs)]

\* a closest that subtracts the first center from the rows of X in place
ArgsAfterInPlace(XX, cs) ==
    IF Len(cs) = 0 \/ cs[1].nan THEN <<XX, cs>>
    ELSE <<[i \in 1..Len(XX) |-> [nan |-> FALSE, v |-> [d \in Dims |-> XX[i].v[d] - cs[1].v[d]]]], cs>>

\* The arrays X and centers as closest and new_centers leave them: every
\* numpy operation of the two functions (the subtraction, norm, argmin, the
\* selection X[c==k], mean) builds a new array and neither argument is written
ArgsAfter(XX, cs) == <<XX, cs>>

\* the labels, 0-based as in the code
closest(XX, cs) == [i \in 1..Len(XX) |-> ArgMin(XX[i], cs) - 1]

\* ---- new_centers(X, centers) --------------------------------------------
\* np.unique(c)
Unique(cc) == {cc[i] : i \in 1..Len(cc)}

\* the rows X[c==k]
Members(cc, k) == {i \in 1..Len(cc) : cc[i] = k}

\* a K taken from the number of rows: one center for every row
MeansOfEveryRow(XX, cc) == [k \in 1..Len(cc) |-> MeanOf(XX, Members(cc, k - 1))]

\* a K taken from the largest label: one center for every k up to it
MeansOfUpToMax(XX, cc) ==
    LET top == CHOOSE k \in Unique(cc) : \A l \in Unique(cc) : l <= k
    IN  [k \in 1..top + 1 |-> MeanOf(XX, Members(cc, k - 1))]

\* np.array([X[c==k].mean(axis=0) for k in range(K)]) with K = len(np.unique(c))
MeansOf(XX, cc) == [k \in 1..Cardinality(Unique(cc)) |-> MeanOf(XX, Members(cc, k - 1))]

\* an update that hands the centers back unchanged
new_centersUnmoved(XX, cs) == cs

new_centers(XX, cs) == MeansOf(XX, closest(XX, cs))

\* ---- np.linalg.norm(moved - centers) ------------------------------------
\* numpy broadcasting of two (n, dimension) arrays: equal n, or one of them 1
Broadcastable(a, b) == Len(a) = Len(b) \/ Len(a) = 1 \/ Len(b) = 1

Row(a, j) == IF Len(a) = 1 THEN a[1] ELSE a[j]

BroadcastLen(a, b) == IF Len(a) >= Len(b) THEN Len(a) ELSE Len(b)

\* a norm of the first coordinate of the difference only
NormOfDiffFirstCoord(a, b) ==
    LET J == 1..BroadcastLen(a, b)
    IN  IF \E j \in J : Row(a, j).nan \/ Row(b, j).nan
        THEN [nan |-> TRUE, sq |-> 0]
        ELSE [nan |-> FALSE,
              sq |-> SumOver(J, [j \in J |-> (Row(a, j).v[1] - Row(b, j).v[1]) * (Row(a, j).v[1] - Row(b, j).v[1])])]

\* a norm of the movement of the first center only
NormOfDiffFirst(a, b) ==
    IF Row(a, 1).nan \/ Row(b, 1).nan
    THEN [nan |-> TRUE, sq |-> 0]
    ELSE [nan |-> FALSE, sq |-> Dist2(Row(a, 1), Row(b, 1))]

\* a norm of moved - moved
NormOfDiffSelf(a, b) == [nan |-> \E j \in 1..Len(a) : a[j].nan, sq |-> 0]

\* the Frobenius norm of the broadcast difference as its square, or nan
NormOfDiff(a, b) ==
    LET J == 1..BroadcastLen(a, b)
    IN  IF \E j \in J : Row(a, j).nan \/ Row(b, j).nan
        THEN [nan |-> TRUE, sq |-> 0]
        ELSE [nan |-> FALSE, sq |-> SumOver(J, [j \in J |-> Dist2(Row(a, j), Row(b, j))])]

\* a test with >= in place of >, which a Delta of 0 passes
AboveTolInclusive(D) == ~D.nan /\ D.sq >= (Scale * Scale) \div (TolInv * TolInv)

\* Delta > .001, that is Delta^2 * Scale^2 > Scale^2 / TolInv^2
AboveTol(D) == ~D.nan /\ D.sq > (Scale * Scale) \div (TolInv * TolInv)

\* a loop without the hard limit on the number of iterations
LoopCondNoLimit == AboveTol(Delta)

\* a loop that goes on while either test holds
LoopCondEither == AboveTol(Delta) \/ iteration < max_iter

\* a loop that still runs when iteration has reached max_iter
LoopCondOffByOne == AboveTol(Delta) /\ iteration <= max_iter

\* the condition of the while loop
LoopCond == AboveTol(Delta) /\ iteration < max_iter

\* ---- cluster_centers / the first line of kMeans -------------------------
\* np.random.choice(len(X), size=K) raises ValueError for a negative size
choiceRaises(XX, KK) == KK < 0

\* a draw of as many indices as there are rows
ChoicesOfAllRows(XX, KK) == [1..Len(XX) -> 1..Len(XX)]

\* a draw without replacement: no index twice
ChoicesDistinct(XX, KK) ==
    {f \in [1..KK -> 1..Len(XX)] : \A i, j \in 1..KK : f[i] = f[j] => i = j}

\* a generator with a fixed seed: one index array only
ChoicesSeeded(XX, KK) == {[j \in 1..KK |-> ((j - 1) % Len(XX)) + 1]}

\* the index arrays np.random.choice(len(X), size=K) can return
Choices(XX, KK) == [1..KK -> 1..Len(XX)]

\* initial centers that all start at the mean of the rows
cluster_centersAtMean(XX, idx) == [j \in 1..Len(idx) |-> MeanOf(XX, 1..Len(XX))]

\* X[idx]
cluster_centers(XX, idx) == [j \in 1..Len(idx) |-> XX[idx[j]]]

\* ---- kMeans(X, K, max_iter) ---------------------------------------------
\* lexicographic order of the rows
RowLeq(p, q) == p.v[1] < q.v[1] \/ (p.v[1] = q.v[1] /\ p.v[2] <= q.v[2])

\* The datasets, one per multiset of rows: kMeans commutes with a reordering
\* of the rows (the labels are reordered alike) and Initialize draws every
\* tuple of row indices, so each dataset is listed in one order only.
Datasets ==
    UNION {{s \in [1..m -> Points] : \A i \in 1..m - 1 : RowLeq(s[i], s[i + 1])} : m \in 1..MaxM}

Unset == [nan |-> FALSE, sq |-> 0]

Init ==
    /\ X \in Datasets
    /\ K \in -1..MaxK
    /\ max_iter \in 1..MaxIter
    /\ centers = <<>>
    /\ iteration = 0
    /\ Delta = Unset
    /\ moved = <<>>
    /\ c = <<>>
    /\ labels = <<>>
    /\ pc = "start"
    /\ draws = 0
    /\ calls = 0
    /\ printed = <<>>

\* an initialization that the loop can run again after an update
InitializeAgain ==
    /\ pc \in {"start", "loop"}
    /\ draws < 2
    /\ draws' = draws + 1
    /\ IF choiceRaises(X, K)
       THEN /\ pc' = "raised"
            /\ UNCHANGED <<centers, iteration, Delta>>
       ELSE /\ \E idx \in Choices(X, K) : centers' = cluster_centers(X, idx)
            /\ iteration' = 0
            /\ Delta' = [nan |-> FALSE, sq |-> InitialDelta * InitialDelta * Scale * Scale]
            /\ pc' = "loop"
    /\ UNCHANGED <<X, K, max_iter, moved, c, labels, calls, printed>>

\* centers = X[np.random.choice(len(X),size=K)]; iteration = 0; Delta = 1
Initialize ==
    /\ pc = "start"
    /\ draws' = draws + 1
    /\ IF choiceRaises(X, K)
       THEN /\ pc' = "raised"
            /\ UNCHANGED <<centers, iteration, Delta>>
       ELSE /\ \E idx \in Choices(X, K) : centers' = cluster_centers(X, idx)
            /\ iteration' = 0
            /\ Delta' = [nan |-> FALSE, sq |-> InitialDelta * InitialDelta * Scale * Scale]
            /\ pc' = "loop"
    /\ UNCHANGED <<X, K, max_iter, moved, c, labels, calls, printed>>

\* one pass of the body of the while loop; calls counts the calls of new_centers
Update ==
    /\ pc = "loop"
    /\ LoopCond
    /\ calls' = calls + 1
    /\ IF closestRaises(X, centers)
       THEN /\ pc' = "raised"
            /\ centers' = ArgsAfter(X, centers)[2]
            /\ UNCHANGED <<c, moved, Delta, iteration>>
       ELSE /\ c' = closest(X, centers)
            /\ moved' = new_centers(X, centers)
            /\ IF Broadcastable(moved', centers)
               THEN /\ Delta' = NormOfDiff(moved', centers)
                    /\ iteration' = iteration + 1
                    /\ centers' = moved'
                    /\ pc' = "loop"
               ELSE /\ pc' = "raised"
                    /\ centers' = ArgsAfter(X, centers)[2]
                    /\ UNCHANGED <<Delta, iteration>>
    /\ X' = ArgsAfter(X, centers)[1]
    /\ UNCHANGED <<K, max_iter, labels, draws, printed>>

\* the loop is left: print iteration; labels = closest(X,centers); return centers, labels
Return ==
    /\ pc = "loop"
    /\ ~LoopCond
    /\ printed' = Append(printed, iteration)
    /\ X' = ArgsAfter(X, centers)[1]
    /\ centers' = ArgsAfter(X, centers)[2]
    /\ IF closestRaises(X, centers)
       THEN /\ pc' = "raised"
            /\ UNCHANGED labels
       ELSE /\ labels' = closest(X, centers)
            /\ pc' = "returned"
    /\ UNCHANGED <<K, max_iter, iteration, Delta, moved, c, draws, calls>>

Next == Initialize \/ Update \/ Return

Spec == Init /\ [][Next]_vars

\* ---- kMeans as a function of the draw -----------------------------------
\* what a call ends with: an exception, or the tuple (centers, labels)
Raised == [raised |-> TRUE, centers |-> <<>>, labels |-> <<>>]

\* the while loop of kMeans and what follows it, from the centers cs held
\* after it iterations with the last Delta D
RECURSIVE kMeansLoop(_, _, _, _, _)
kMeansLoop(XX, cs, it, D, mi) ==
    IF AboveTol(D) /\ it < mi
    THEN IF closestRaises(XX, cs) \/ ~Broadcastable(new_centers(XX, cs), cs)
         THEN Raised
         ELSE kMeansLoop(XX, new_centers(XX, cs), it + 1, NormOfDiff(new_centers(XX, cs), cs), mi)
    ELSE IF closestRaises(XX, cs)
         THEN Raised
         ELSE [raised |-> FALSE, centers |-> cs, labels |-> closest(XX, cs)]

\* kMeans(X, K, max_iter) when np.random.choice returns idx
kMeans(XX, idx, mi) ==
    kMeansLoop(XX, cluster_centers(XX, idx), 0,
               [nan |-> FALSE, sq |-> InitialDelta * InitialDelta * Scale * Scale], mi)

\* ---- properties ---------------------------------------------------------
\* K is a configuration the data model allows: 1 <= K <= M
ValidK == 1 <= K /\ K <= Len(X)

\* kMeans holds a center set
Holding == pc \in {"loop", "returned"}

\* p is exactly the componentwise mean of the rows of XX with index in I
IsMeanOf(p, XX, I) ==
    /\ I # {}
    /\ ~p.nan
    /\ \A d \in Dims : p.v[d] * Cardinality(I) = SumOver(I, [i \in I |-> XX[i].v[d]])

\* a is a nearest-center assignment of XX to the finite centers cs, 0-based,
\* the lowest index winning a tie
IsNearest(a, XX, cs) ==
    /\ DOMAIN a = 1..Len(XX)
    /\ \A i \in 1..Len(XX) :
        /\ a[i] \in 0..Len(cs) - 1
        /\ \A j \in 1..Len(cs) :
            /\ Dist2(XX[i], cs[a[i] + 1]) <= Dist2(XX[i], cs[j])
            /\ j < a[i] + 1 => Dist2(XX[i], cs[a[i] + 1]) < Dist2(XX[i], cs[j])

Finite(cs) == \A j \in 1..Len(cs) : ~cs[j].nan

\* Delta <= .001
AtMostTol(D) == ~D.nan /\ D.sq <= (Scale * Scale) \div (TolInv * TolInv)

\* C1: kMeans calls the update step at most max_iter times and iteration never
\* exceeds max_iter: every completed update counts, so that after max_iter
\* updates iteration has reached max_iter and the loop is left
C1_IterationBound ==
    /\ iteration <= max_iter
    /\ calls <= max_iter
    /\ (pc = "loop" /\ calls = max_iter) => iteration = max_iter

\* C1 witness: the loop was left at the hard limit, Delta still above .001
C1_Witness == pc = "returned" /\ iteration = max_iter /\ calls = max_iter /\ AboveTol(Delta)

\* C2 (as claimed): once an update yields fewer than K non-empty clusters,
\* kMeans neither ends in an exception nor returns fewer than K centers
C2_DegenerateReported ==
    (ValidK /\ c # <<>> /\ Cardinality(Unique(c)) < K) =>
        /\ pc # "raised"
        /\ ~(pc = "returned" /\ Len(centers) < K)

\* C3: what kMeans returns is consistent: labels is closest(X, centers) for
\* the centers returned, has one entry per row, each the index of a returned center
C3_ReturnConsistent ==
    pc = "returned" =>
        /\ labels = closest(X, centers)
        /\ Len(labels) = Len(X)
        /\ \A i \in 1..Len(X) : labels[i] \in 0..Len(centers) - 1
        /\ Finite(centers) => IsNearest(labels, X, centers)

\* C3 witness: a return with two centers in use, after two updates
C3_Witness == pc = "returned" /\ calls = 2 /\ Cardinality(Unique(labels)) = 2

\* C4: closest gives every row the index in [0, K) of a center at minimum
\* distance, the lowest such index on a tie: for the assignment c an update
\* computes from the centers it is given, and for the labels computed at the return
C4_AssignNearest ==
    [][/\ (calls' = calls + 1 /\ Len(centers) > 0 /\ Finite(centers)) => IsNearest(c', X, centers)
       /\ (pc' = "returned" /\ Finite(centers)) => IsNearest(labels', X, centers)]_vars

\* C4 witness: the two initial centers were the same point, every row was as
\* near to the one as to the other, and the first update labelled every row 0
C4_Witness == ValidK /\ K = 2 /\ calls = 1 /\ Len(c) >= 2 /\ Unique(c) = {0}

\* C5: when the assignment c populates every index 0..K-1, new_centers
\* returns K centers and center j is the exact mean of the rows labelled j
C5_RecomputeMeans ==
    (c # <<>> /\ K >= 1 /\ Unique(c) = 0..K - 1) =>
        /\ Len(moved) = K
        /\ \A j \in 1..K : IsMeanOf(moved[j], X, Members(c, j - 1))

\* C5 witness: an update with K >= 2, every index populated and a cluster of two rows
C5_Witness ==
    /\ c # <<>> /\ K >= 2 /\ Unique(c) = 0..K - 1
    /\ \E j \in 0..K - 1 : Cardinality(Members(c, j)) >= 2

\* C6: for 1 <= K <= M the initial center set has K points, each equal to a row of X
C6_InitializeCopies ==
    (pc = "loop" /\ calls = 0 /\ ValidK) =>
        /\ Len(centers) = K
        /\ \A j \in 1..K : \E i \in 1..Len(X) : centers[j] = X[i]

\* C6 witness: K = 2 initial centers drawn from M = 3 rows
C6_Witness == pc = "loop" /\ calls = 0 /\ K = 2 /\ Len(X) = 3 /\ Len(centers) = 2

\* C7 (as claimed): with K < 1 or K > M the call is rejected at the
\* initialization: it ends in an exception, no center set is made, no update runs
C7_RejectsBadK ==
    (K < 1 \/ K > Len(X)) => (pc \in {"start", "raised"} /\ centers = <<>> /\ calls = 0)

\* C8 (as claimed): the center set held has exactly K points throughout
C8_KCenters == (ValidK /\ Holding) => Len(centers) = K

\* C9 (as claimed): whenever kMeans holds centers, every index j in 0..K-1
\* that the current assignment closest(X, centers) gives a row has center j
\* equal to the mean of the rows assigned to j
C9_MeansAtAllTimes ==
    (ValidK /\ Holding /\ Len(centers) > 0) =>
        \A j \in 0..K - 1 :
            Members(closest(X, centers), j) # {} =>
                /\ j < Len(centers)
                /\ IsMeanOf(centers[j + 1], X, Members(closest(X, centers), j))

\* C9 (amended): after every completed update, every held center j that the
\* assignment c of that update gives a row equals the mean of the rows c labels j
C9_MeansAfterUpdate ==
    (Holding /\ calls > 0) =>
        \A j \in 0..Len(centers) - 1 :
            Members(c, j) # {} => IsMeanOf(centers[j + 1], X, Members(c, j))

\* C9 witness: after an update, a center that is the mean of two different rows
C9_Witness ==
    /\ Holding /\ calls > 0
    /\ \E j \in 0..Len(centers) - 1 : \E i1, i2 \in Members(c, j) : X[i1] # X[i2]

\* C10: after an update the next step is another update exactly when
\* Delta > .001 and iteration < max_iter, and otherwise the loop is left
C10_LoopTest ==
    [][(pc = "loop" /\ calls >= 1) =>
        /\ (calls' = calls + 1) <=> (AboveTol(Delta) /\ iteration < max_iter)
        /\ (calls' = calls /\ pc' = "returned") <=> (AtMostTol(Delta) \/ iteration >= max_iter)]_vars

\* C10 witness: an update, a second update, then the return
C10_Witness == pc = "returned" /\ calls = 2 /\ iteration = 2 /\ AtMostTol(Delta)

\* C11: when the hard limit is reached with Delta still above .001, kMeans
\* does not raise: its next step prints iteration = max_iter and returns the
\* centers it holds with the labels computed from them
C11_CapReturns ==
    [][(pc = "loop" /\ calls >= 1 /\ iteration = max_iter /\ AboveTol(Delta)) =>
        /\ pc' = "returned"
        /\ centers' = centers
        /\ Finite(centers) /\ IsNearest(labels', X, centers')
        /\ printed' = <<max_iter>>]_vars

\* C11 witness: a return of two centers at the limit, the last update having
\* moved the centers by more than .001, with the limit printed
C11_Witness ==
    /\ pc = "returned" /\ iteration = max_iter /\ AboveTol(Delta)
    /\ Len(centers) = 2 /\ printed = <<max_iter>>

\* the total within-cluster sum of squared distances of the rows of XX,
\* grouped by the assignment a, to the centers cs
Wcss(XX, a, cs) == SumOver(1..Len(XX), [i \in 1..Len(XX) |-> Dist2(XX[i], cs[a[i] + 1])])

\* no cluster index 0..K-1 is empty in the assignment a
NoneEmpty(a) == K >= 1 /\ a # <<>> /\ Unique(a) = 0..K - 1

\* C12: as long as no cluster is empty, the within-cluster sum of squares
\* after an update (rows grouped by the assignment c of that update, measured
\* to the centers it returned) is at most the one after the update before
C12_WcssNonIncreasing ==
    [][(pc = "loop" /\ calls >= 1 /\ calls' = calls + 1 /\ NoneEmpty(c) /\ NoneEmpty(c')) =>
        Wcss(X, c', moved') <= Wcss(X, c, moved)]_vars

\* C12 witness: two updates with K >= 2 and no cluster empty, the second of
\* which regrouped the rows and moved the centers
C12_Witness ==
    /\ Holding /\ calls = 2 /\ K >= 2 /\ NoneEmpty(c)
    /\ AboveTol(Delta) /\ Wcss(X, c, moved) > 0

\* Delta = 0: the last update did not move the centers
Converged == calls >= 1 /\ ~Delta.nan /\ Delta.sq = 0

\* C13: for a converged center set (the update moved it by Delta = 0) the
\* assignment computed after the update equals the one computed before it:
\* c is closest of the centers the update was given, labels is closest of the
\* centers new_centers made of c; one more round changes nothing either
C13_Idempotent ==
    (pc = "returned" /\ Converged) =>
        /\ labels = c
        /\ closest(X, new_centers(X, centers)) = labels

\* C13 witness: a return after convergence with two clusters, one of them of two
\* different rows
C13_Witness ==
    /\ pc = "returned" /\ Converged /\ Cardinality(Unique(labels)) = 2
    /\ \E i1, i2 \in 1..Len(X) : labels[i1] = labels[i2] /\ X[i1] # X[i2]

\* every row of X is the same point
OnePoint == \A i \in 1..Len(X) : X[i] = X[1]

\* C14: on one point repeated M times with K = 1, kMeans does not raise and
\* returns after exactly one iteration, converged, with the single center
\* equal to that point and every row labelled 0
C14_OnePoint ==
    (K = 1 /\ OnePoint) =>
        /\ pc # "raised"
        /\ pc = "returned" =>
            /\ iteration = 1 /\ calls = 1 /\ printed = <<1>>
            /\ Delta = [nan |-> FALSE, sq |-> 0]
            /\ centers = <<X[1]>>
            /\ labels = [i \in 1..Len(X) |-> 0]

\* C14 witness: the return for a point repeated three times, with room for a
\* second iteration
C14_Witness == pc = "returned" /\ K = 1 /\ OnePoint /\ Len(X) = 3 /\ max_iter = 2 /\ X[1].v[1] > 0

\* C16: no step of kMeans changes the dataset, and a call of closest or
\* new_centers leaves the center set it is given as it was: the centers are
\* the same after the closest of the return and after an update that raised
\* (only the assignment centers = moved of kMeans itself replaces them)
C16_ArgumentsUnchanged ==
    [][/\ X' = X
       /\ pc' = "returned" => centers' = centers
       /\ (pc = "loop" /\ pc' = "raised") => centers' = centers]_vars

\* C16 witness: a return with three centers on three different rows, after an
\* update that called closest and new_centers
C16_Witness ==
    /\ pc = "returned" /\ calls >= 1 /\ Len(centers) = 3
    /\ X \in Datasets /\ Cardinality(Unique(X)) = 3

\* C17: for every sequence of K row indices, repeated indices included, the
\* draw of the initialization can return it and the centers are then the
\* rows at those indices
C17_WithReplacement ==
    (pc = "start" /\ K >= 0) =>
        \A s \in [1..K -> 1..Len(X)] :
            /\ s \in Choices(X, K)
            /\ cluster_centers(X, s) = [j \in 1..K |-> X[s[j]]]

\* C17 witness: three different rows, and the initialization has returned the
\* same row twice
C17_Witness ==
    /\ pc = "loop" /\ calls = 0 /\ K = 2 /\ Cardinality(Unique(X)) = 3
    /\ centers[1] = centers[2]

\* the center set cs can be got from the rows of XX at the indices s
RowsAt(cs, XX, s) == cs = [j \in 1..Len(cs) |-> XX[s[j]]]

\* C18 (as claimed): the initial center set consists of K distinct rows: it
\* is the rows at K pairwise different indices
C18_DistinctRows ==
    (pc = "loop" /\ calls = 0 /\ ValidK) =>
        \E s \in [1..K -> 1..Len(X)] :
            /\ \A i, j \in 1..K : s[i] = s[j] => i = j
            /\ RowsAt(centers, X, s)

\* C18 (amended): the initial center set consists of the rows at K indices,
\* which need not be different
C18_RowsWithRepeats ==
    (pc = "loop" /\ calls = 0 /\ ValidK) =>
        /\ Len(centers) = K
        /\ \E s \in [1..K -> 1..Len(X)] : RowsAt(centers, X, s)

\* C18 witness: K = 3 = M initial centers that are one and the same row, while
\* the rows of X are not all equal
C18_Witness ==
    /\ pc = "loop" /\ calls = 0 /\ K = 3 /\ Len(X) = 3
    /\ centers[1] = centers[2] /\ centers[2] = centers[3]
    /\ Cardinality(Unique(X)) >= 2

\* C19 (as claimed): whenever kMeans computes Delta, moved and centers have
\* the same number of rows
C19_SameShape ==
    [][(ValidK /\ iteration' = iteration + 1) => Len(moved') = Len(centers)]_vars

\* C20 (as claimed): a call with a valid K is either running or has returned:
\* it never ends in an exception, it returns only after the test that follows
\* an update, and after the return centers and iteration stay as they are
C20_TwoStates ==
    [][ValidK =>
        /\ pc' \in {"loop", "returned"}
        /\ pc' = "returned" => (pc = "loop" /\ calls >= 1)
        /\ pc = "returned" => (centers' = centers /\ iteration' = iteration)]_vars

\* C21: when the assignment of an update gives no row to some index of the
\* centers it was given, new_centers returns as many centers as there are
\* different labels in the assignment, fewer than it was given and fewer than K
C21_ShrinksToLabels ==
    [][(calls' = calls + 1 /\ Len(centers) > 0
            /\ \E k \in 0..Len(centers) - 1 : Members(c', k) = {}) =>
        /\ Len(moved') = Cardinality(Unique(c'))
        /\ Len(moved') < Len(centers)
        /\ Len(moved') < K]_vars

\* C21 witness: three centers, the middle index without a row, two centers returned
C21_Witness == calls = 1 /\ K = 3 /\ Unique(c) = {0, 2} /\ Len(moved) = 2

\* the sum of the squared differences of all coordinates of all centers of a
\* and b, a center set of one row standing for as many copies as the other has rows
SumOfSquares(a, b) ==
    LET P == (1..BroadcastLen(a, b)) \X Dims
    IN  SumOver(P, [p \in P |-> (Row(a, p[1]).v[p[2]] - Row(b, p[1]).v[p[2]])
                                  * (Row(a, p[1]).v[p[2]] - Row(b, p[1]).v[p[2]])])

\* C22: the Delta of an update is one number for all centers: its square is
\* the sum of the squared differences between moved and centers over every
\* center and every coordinate; and below the hard limit the loop is left
\* after an update exactly when Delta <= .001
C22_AggregateNorm ==
    [][/\ (iteration' = iteration + 1 /\ Finite(moved') /\ Finite(centers)) =>
            (~Delta'.nan /\ Delta'.sq = SumOfSquares(moved', centers))
       /\ (pc = "loop" /\ calls >= 1 /\ iteration < max_iter) =>
            ((pc' = "returned") <=> AtMostTol(Delta))]_vars

\* C22 witness: a first update of two centers that moved center 1 (it is no
\* row of X any more) by more than .001
C22_Witness ==
    /\ pc = "loop" /\ calls = 1 /\ Len(moved) = 2 /\ Len(centers) = 2 /\ AboveTol(Delta)
    /\ \A i \in 1..Len(X) : moved[2] # X[i]

\* C23: np.random.choice is called once, by the initialization, and never by
\* an update or by the return; once an update has run the call is not started
\* again: iteration and the number of updates only grow
C23_OneDraw ==
    [][/\ draws' # draws => (pc = "start" /\ draws = 0 /\ draws' = 1)
       /\ pc # "start" => (draws = 1 /\ draws' = 1 /\ pc' # "start")
       /\ calls >= 1 => (iteration' >= iteration /\ calls' >= calls)]_vars

\* C23 witness: a return after two updates, the first of which lost a center,
\* with one draw made
C23_Witness == pc = "returned" /\ calls = 2 /\ draws = 1 /\ K = 2 /\ Len(centers) = 1

\* C24: when kMeans returns after an update that moved the centers by
\* Delta = 0, one more update gives the returned centers again, and every
\* returned center is the mean of the rows that the returned labels give it
C24_FixedPoint ==
    (pc = "returned" /\ Converged) =>
        /\ new_centers(X, centers) = centers
        /\ \A j \in 1..Len(centers) : IsMeanOf(centers[j], X, Members(labels, j - 1))

\* C24 witness: a return after convergence in the second update, with a
\* center that is no row of X
C24_Witness ==
    /\ pc = "returned" /\ Converged /\ calls = 2 /\ Len(centers) = 2
    /\ \E j \in 1..2 : \A i \in 1..Len(X) : centers[j] # X[i]

\* C25: when two of the initial centers are equal, the first assignment gives
\* no row to the one with the higher index, and so uses fewer than K labels
C25_DuplicateLosesAll ==
    [][(pc = "loop" /\ calls = 0 /\ calls' = 1) =>
        \A j1, j2 \in 1..Len(centers) :
            (j1 < j2 /\ centers[j1] = centers[j2]) =>
                /\ Members(c', j2 - 1) = {}
                /\ Cardinality(Unique(c')) < K]_vars

\* C25 witness: the third of three initial centers repeated an earlier one;
\* the first update used the labels 0 and 1 only
C25_Witness == calls = 1 /\ K = 3 /\ Len(X) = 3 /\ Unique(c) = {0, 1} /\ Len(moved) = 2

\* the assignments a and b put the same rows together
SamePartition(a, b) ==
    /\ Len(a) = Len(b)
    /\ \A i, j \in 1..Len(a) : (a[i] = a[j]) <=> (b[i] = b[j])

\* the rows (0,0), (0,1), (2,0)
ThreeRows == <<Pt(<<0, 0>>), Pt(<<0, 1>>), Pt(<<2, 0>>)>>

\* C26: for the rows (0,0), (0,1), (2,0) and K = 2 there are two draws for
\* which kMeans returns two clusters each, and the two partitions of the rows
\* differ however the clusters are named; what kMeans returns on three rows
\* with K = 2 is what the loop gives for one of the draws
C26_InitDependent ==
    /\ (pc = "start" /\ X = ThreeRows /\ K = 2) =>
        \E i1, i2 \in Choices(X, K) :
            /\ ~kMeans(X, i1, max_iter).raised /\ ~kMeans(X, i2, max_iter).raised
            /\ Cardinality(Unique(kMeans(X, i1, max_iter).labels)) = 2
            /\ Cardinality(Unique(kMeans(X, i2, max_iter).labels)) = 2
            /\ ~SamePartition(kMeans(X, i1, max_iter).labels, kMeans(X, i2, max_iter).labels)
    /\ (pc = "returned" /\ Len(X) = 3 /\ K = 2) =>
        \E i \in Choices(X, K) :
            kMeans(X, i, max_iter) = [raised |-> FALSE, centers |-> centers, labels |-> labels]

\* C26 witness: kMeans has returned (0,0) and (2,0) as one cluster; another
\* draw returns (0,0) and (0,1) as one cluster
C26_Witness ==
    /\ pc = "returned" /\ X = ThreeRows /\ K = 2 /\ labels = <<0, 1, 0>>
    /\ \E i \in Choices(X, K) : kMeans(X, i, max_iter).labels = <<0, 0, 1>>

\* C27 (as claimed): every center an update returns is the mean of a
\* non-empty set of rows (none is the mean of an empty cluster), and every
\* label of the assignment has the mean of its rows among the centers returned
C27_MeansOfNonEmpty ==
    (ValidK /\ calls >= 1) =>
        /\ Finite(moved)
        /\ \A j \in 1..Len(moved) : \E k \in Unique(c) : IsMeanOf(moved[j], X, Members(c, k))
        /\ \A k \in Unique(c) : \E j \in 1..Len(moved) : IsMeanOf(moved[j], X, Members(c, k))

\* the centers cs are pairwise different points
PairwiseDifferent(cs) == \A j1, j2 \in 1..Len(cs) : cs[j1] = cs[j2] => j1 = j2

\* C28: when the K >= 1 initial centers are pairwise different points, the
\* first assignment uses every label 0..K-1 (the row a center was copied from
\* gets the label of that center) and the first update returns K centers
C28_DistinctInitKeepsK ==
    [][(pc = "loop" /\ calls = 0 /\ calls' = 1 /\ K >= 1 /\ PairwiseDifferent(centers)) =>
        /\ Unique(c') = 0..K - 1
        /\ \A j \in 1..K : \E i \in 1..Len(X) : X[i] = centers[j] /\ c'[i] = j - 1
        /\ Len(moved') = K
        /\ pc' = "loop" /\ Len(centers') = K]_vars

\* C28 witness: three different rows, each the only row of its cluster after
\* the first update
C28_Witness ==
    /\ pc = "loop" /\ calls = 1 /\ K = 3 /\ Unique(c) = {0, 1, 2}
    /\ Len(moved) = 3 /\ PairwiseDifferent(moved)

\* C29: an update that is given centers returns at least one center and at
\* most as many as it was given, so that the number of centers kMeans holds
\* after an update is at least 1 and never grows
C29_CountNeverGrows ==
    [][(calls' = calls + 1 /\ Len(centers) > 0) =>
        /\ 1 <= Len(moved') /\ Len(moved') <= Len(centers)
        /\ 1 <= Len(centers') /\ Len(centers') <= Len(centers)
        /\ Len(centers') <= K]_vars

\* C29 witness: two updates, the first of which went from three centers to
\* one and the second of which kept that one
C29_Witness ==
    /\ Holding /\ calls = 2 /\ K = 3 /\ Len(centers) = 1 /\ Len(X) >= 2

====
